---- MODULE Spec2Model ----
(***************************************************************************)
(* Blink Tac Toe: the game logic of src/components/blink-tac-toe.tsx.      *)
(*                                                                         *)
(* The React component keeps three pieces of state (gameState, players,    *)
(* scores).  Every event handler runs to completion, its setState calls    *)
(* are batched into one render, and the passive effect of lines 117-139    *)
(* is flushed before the next event is handled, so one handler together    *)
(* with the effect it triggers is one atomic step.                         *)
(***************************************************************************)
EXTENDS Integers, Sequences, FiniteSets, TLC

VARIABLES
    gameState,  \* useState<GameState>, line 99
    players,    \* useState<Player[]>, line 102 (indexed by player id)
    scores,     \* useState({player1, player2}), line 108
    owner,      \* ghost: owner[c] = id of the player who placed the mark on cell c, 0 if none
    lastCall,   \* ghost: what the last handler call did
    lateMoves   \* ghost: accepted moves made after the first win of the session

vars == <<gameState, players, scores, owner, lastCall, lateMoves>>

(***************************************************************************)
(* Bounds of the model                                                     *)
(***************************************************************************)
\* Once a game has been won, the session ("Play Again", or "Reset Game" and
\* "Start Game") is followed for this many more accepted moves.  One move
\* shows a placement left over from the previous game being evicted; a
\* left-over placement can reach an emoji of the opponent from the second on.
MaxLateMoves == 1

\* Accepted moves that may follow the first win of a session in SpecAgain: the
\* second move of a rematch is the first that can reach an opponent's mark.
MaxAgainMoves == 2

\* In Spec the players click these cells (SpecFull uses the whole board).
GameCells == 0 .. 6

\* Boards handed to checkWinner in SpecCW hold at most this many emojis.
MaxMarks == 6

\* The categories the players choose among (a subset of the catalog).
Categories == {"tech", "space"}

\* The values Math.floor(Math.random() * length) takes during a game (0-based).
GameDraws == {0}

\* Indices outside the board that a click may carry.
OutOfRange == {-1, 9}

\* The emojis on the boards handed to checkWinner in SpecCW.
BoardEmojis == {"laptop", "phone", "rocket"}

(***************************************************************************)
(* Values                                                                  *)
(***************************************************************************)
Null == "null"              \* JavaScript null
Undefined == "undefined"    \* JavaScript undefined (a read outside an array)
QuestionMark == "?"         \* the fallback emoji of getRandomEmoji
NoWinner == 0               \* winner: number | null, the null of line 57
NoLine == <<>>              \* winningLine: number[] | null, the null of line 58

Cells == 0 .. 8
PlayerIds == {1, 2}

emojiCategories ==
    [animals |-> <<"dog", "cat", "monkey", "rabbit", "fox", "bear", "panda", "koala", "lion", "tiger">>,
     food    |-> <<"pizza", "burger", "fries", "donut", "icecream", "lollipop", "chocolate", "popcorn", "croissant", "cookie">>,
     sports  |-> <<"soccer", "basketball", "football", "tennis", "volleyball", "rugby", "pool", "pingpong", "baseball", "softball">>,
     tech    |-> <<"laptop", "phone", "desktop", "keyboard", "mouse", "gamepad", "headphones", "camera", "joystick", "battery">>,
     space   |-> <<"rocket", "ufo", "galaxy", "shootingstar", "planet", "invader", "alien", "newmoon", "fullmoon", "comet">>]

\* Array.prototype.includes on a category list.
Includes(list, e) == \E k \in 1 .. Len(list) : list[k] = e

EmptyBoard == [c \in Cells |-> Null]
NoOwner == [c \in Cells |-> 0]

initialGameState ==
    [board |-> EmptyBoard,
     currentPlayer |-> 1,
     winner |-> NoWinner,
     winningLine |-> NoLine,
     gameStarted |-> FALSE,
     player1Category |-> "tech",
     player2Category |-> "space"]

initialPlayers ==
    [id \in PlayerIds |->
        [category |-> IF id = 1 THEN "tech" ELSE "space",
         emojis |-> <<>>,
         placedEmojis |-> <<>>]]

initialScores == [player1 |-> 0, player2 |-> 0]

\* Mutant: the diagonals are scanned first.
winningCombinationsDiagonalsFirst ==
    << <<0, 4, 8>>, <<2, 4, 6>>,
       <<0, 1, 2>>, <<3, 4, 5>>, <<6, 7, 8>>,
       <<0, 3, 6>>, <<1, 4, 7>>, <<2, 5, 8>> >>

winningCombinations ==
    << <<0, 1, 2>>, <<3, 4, 5>>, <<6, 7, 8>>,
       <<0, 3, 6>>, <<1, 4, 7>>, <<2, 5, 8>>,
       <<0, 4, 8>>, <<2, 4, 6>> >>

(***************************************************************************)
(* The player-initialisation effect, lines 117-139.  It runs after a       *)
(* render whose gameStarted, player1Category or player2Category differs    *)
(* from the previous render's.  The shuffle permutes the category list;    *)
(* the list is only ever read at a uniformly random index, so the model    *)
(* keeps it in catalog order.                                              *)
(***************************************************************************)
DepsChanged(old, new) ==
    \/ old.gameStarted # new.gameStarted
    \/ old.player1Category # new.player1Category
    \/ old.player2Category # new.player2Category

PlayerInitEffect(old, new, pl) ==
    IF DepsChanged(old, new) /\ new.gameStarted
    THEN [id \in PlayerIds |->
            LET category == IF id = 1 THEN new.player1Category ELSE new.player2Category
            IN  [pl[id] EXCEPT !.category = category,
                               !.emojis = emojiCategories[category],
                               !.placedEmojis = <<>>]]
    ELSE pl

(***************************************************************************)
(* getRandomEmoji, lines 146-153: the emojis the draw can return.          *)
(***************************************************************************)
getRandomEmoji(pl, playerId) ==
    IF Len(pl[playerId].emojis) = 0
    THEN {QuestionMark}
    ELSE {pl[playerId].emojis[k + 1] : k \in GameDraws \cap (0 .. Len(pl[playerId].emojis) - 1)}

(***************************************************************************)
(* checkWinner, lines 233-257.                                             *)
(***************************************************************************)
\* board[i] in a condition: null is falsy, an emoji string is truthy.
Truthy(v) == v # Null /\ v # Undefined

\* Mutant: a line counts only if it holds three times the same emoji.
IsPlayerWinSameEmoji(board, combo, category) ==
    /\ Includes(emojiCategories[category], board[combo[1]])
    /\ board[combo[2]] = board[combo[1]]
    /\ board[combo[3]] = board[combo[1]]

IsPlayerWin(board, combo, category) ==
    /\ Includes(emojiCategories[category], board[combo[1]])
    /\ Includes(emojiCategories[category], board[combo[2]])
    /\ Includes(emojiCategories[category], board[combo[3]])

RECURSIVE ScanCombos(_, _, _, _)
ScanCombos(board, gs, combos, k) ==
    IF k > Len(combos)
    THEN [winner |-> NoWinner, winningLine |-> NoLine]
    ELSE LET combo == combos[k]
         IN  IF Truthy(board[combo[1]]) /\ Truthy(board[combo[2]]) /\ Truthy(board[combo[3]])
             THEN IF IsPlayerWin(board, combo, gs.player1Category)
                  THEN [winner |-> 1, winningLine |-> combo]
                  ELSE IF IsPlayerWin(board, combo, gs.player2Category)
                       THEN [winner |-> 2, winningLine |-> combo]
                       ELSE ScanCombos(board, gs, combos, k + 1)
             ELSE ScanCombos(board, gs, combos, k + 1)

checkWinner(board, gs) == ScanCombos(board, gs, winningCombinations, 1)

(***************************************************************************)
(* handleCellClick, lines 165-226.                                         *)
(***************************************************************************)
\* gameState.board[index]; a read outside the array yields undefined.
BoardAt(board, index) == IF index \in DOMAIN board THEN board[index] ELSE Undefined

\* Mutant: the guard forgets that the game is over.
ClickRejectedWhileRunning(gs, index) ==
    \/ ~gs.gameStarted
    \/ BoardAt(gs.board, index) # Null

\* The early return of lines 167-169.
ClickRejected(gs, index) ==
    \/ ~gs.gameStarted
    \/ BoardAt(gs.board, index) # Null
    \/ gs.winner # NoWinner

\* Line 185: a player keeps at most this many emojis.
VanishLimit == 3

\* Mutant: the oldest emoji leaves the queue but stays on the board.
VanishingRuleKeepsCell(cells, blank, newPlacedEmojis) ==
    IF Len(newPlacedEmojis) > VanishLimit
    THEN [cells |-> cells, placedEmojis |-> Tail(newPlacedEmojis)]
    ELSE [cells |-> cells, placedEmojis |-> newPlacedEmojis]

\* Mutant: nothing ever vanishes.
VanishingRuleNever(cells, blank, newPlacedEmojis) ==
    [cells |-> cells, placedEmojis |-> newPlacedEmojis]

\* Mutant: the newest placement is the one that vanishes.
VanishingRuleNewest(cells, blank, newPlacedEmojis) ==
    IF Len(newPlacedEmojis) > VanishLimit
    THEN [cells |-> [cells EXCEPT ![newPlacedEmojis[Len(newPlacedEmojis)].position] = blank],
          placedEmojis |-> SubSeq(newPlacedEmojis, 1, Len(newPlacedEmojis) - 1)]
    ELSE [cells |-> cells, placedEmojis |-> newPlacedEmojis]

\* Lines 182-197: the mover's new queue and the board after the vanishing rule.
\* cells is the board or the ghost owner map, blank its empty value.
VanishingRule(cells, blank, newPlacedEmojis) ==
    IF Len(newPlacedEmojis) > VanishLimit
    THEN [cells |-> [cells EXCEPT ![newPlacedEmojis[1].position] = blank],
          placedEmojis |-> Tail(newPlacedEmojis)]
    ELSE [cells |-> cells, placedEmojis |-> newPlacedEmojis]

\* Mutant: the turn is not handed over.
NextPlayerStays(currentPlayerId) == currentPlayerId

\* Mutant: the turn is handed over only when player 1 moved.
NextPlayerAlwaysTwo(currentPlayerId) == 2

\* Line 211.
NextPlayer(currentPlayerId) == IF currentPlayerId = 1 THEN 2 ELSE 1

\* Mutant: every detected winner is credited to player 1.
UpdateScoresPlayerOne(sc, winner) ==
    IF winner # NoWinner
    THEN [player1 |-> sc.player1 + 1, player2 |-> sc.player2]
    ELSE sc

\* Lines 217-225.
UpdateScores(sc, winner) ==
    IF winner # NoWinner
    THEN [player1 |-> IF winner = 1 THEN sc.player1 + 1 ELSE sc.player1,
          player2 |-> IF winner = 2 THEN sc.player2 + 1 ELSE sc.player2]
    ELSE sc

ClickOutcome(index) ==
    IF ClickRejected(gameState, index) THEN "rejected"
    ELSE IF Len(players[gameState.currentPlayer].placedEmojis) + 1 > VanishLimit THEN "vanish"
    ELSE "place"

\* Mutant: the winner is looked for before the oldest placement vanishes.
HandleCellClickWinBeforeVanish(index) ==
    /\ lastCall' = ClickOutcome(index)
    /\ IF ClickRejected(gameState, index)
       THEN UNCHANGED <<gameState, players, scores, owner, lateMoves>>
       ELSE \E emoji \in getRandomEmoji(players, gameState.currentPlayer) :
            LET currentPlayerId == gameState.currentPlayer
                placed == Append(players[currentPlayerId].placedEmojis,
                                 [position |-> index, emoji |-> emoji])
                newBoard == [gameState.board EXCEPT ![index] = emoji]
                after == VanishingRule(newBoard, Null, placed)
                ownerAfter == VanishingRule([owner EXCEPT ![index] = currentPlayerId], 0, placed)
                winResult == checkWinner(newBoard, gameState)
            IN  /\ players' = [players EXCEPT ![currentPlayerId].placedEmojis = after.placedEmojis]
                /\ gameState' = [gameState EXCEPT !.board = after.cells,
                                                  !.currentPlayer = NextPlayer(currentPlayerId),
                                                  !.winner = winResult.winner,
                                                  !.winningLine = winResult.winningLine]
                /\ scores' = UpdateScores(scores, winResult.winner)
                /\ owner' = ownerAfter.cells
                /\ lateMoves' = IF scores.player1 + scores.player2 > 0 THEN lateMoves + 1 ELSE lateMoves

HandleCellClick(index) ==
    /\ lastCall' = ClickOutcome(index)
    /\ IF ClickRejected(gameState, index)
       THEN UNCHANGED <<gameState, players, scores, owner, lateMoves>>
       ELSE \E emoji \in getRandomEmoji(players, gameState.currentPlayer) :
            LET currentPlayerId == gameState.currentPlayer
                placed == Append(players[currentPlayerId].placedEmojis,
                                 [position |-> index, emoji |-> emoji])
                after == VanishingRule([gameState.board EXCEPT ![index] = emoji], Null, placed)
                ownerAfter == VanishingRule([owner EXCEPT ![index] = currentPlayerId], 0, placed)
                winResult == checkWinner(after.cells, gameState)
            IN  /\ players' = [players EXCEPT ![currentPlayerId].placedEmojis = after.placedEmojis]
                /\ gameState' = [gameState EXCEPT !.board = after.cells,
                                                  !.currentPlayer = NextPlayer(currentPlayerId),
                                                  !.winner = winResult.winner,
                                                  !.winningLine = winResult.winningLine]
                /\ scores' = UpdateScores(scores, winResult.winner)
                /\ owner' = ownerAfter.cells
                /\ lateMoves' = IF scores.player1 + scores.player2 > 0 THEN lateMoves + 1 ELSE lateMoves

(***************************************************************************)
(* startGame, lines 263-272, followed by the effect it may trigger.        *)
(***************************************************************************)
\* Mutant: the turn is left where the last game ended.
startGameKeepsTurn(gs) ==
    [gs EXCEPT !.board = EmptyBoard,
               !.winner = NoWinner,
               !.winningLine = NoLine,
               !.gameStarted = TRUE]

startGame(gs) ==
    [gs EXCEPT !.board = EmptyBoard,
               !.currentPlayer = 1,
               !.winner = NoWinner,
               !.winningLine = NoLine,
               !.gameStarted = TRUE]

\* The "Start Game" button of the setup screen, lines 468-473.
StartGame ==
    /\ ~gameState.gameStarted
    /\ gameState' = startGame(gameState)
    /\ players' = PlayerInitEffect(gameState, gameState', players)
    /\ owner' = NoOwner
    /\ lastCall' = "start"
    /\ UNCHANGED <<scores, lateMoves>>

\* The "Play Again" button, lines 529-536, shown once there is a winner.
Rematch ==
    /\ gameState.gameStarted
    /\ gameState.winner # NoWinner
    /\ gameState' = startGame(gameState)
    /\ players' = PlayerInitEffect(gameState, gameState', players)
    /\ owner' = NoOwner
    /\ lastCall' = "rematch"
    /\ UNCHANGED <<scores, lateMoves>>

(***************************************************************************)
(* resetGame, lines 278-288; the "Reset Game" button of the board screen.  *)
(***************************************************************************)
\* Mutant: the categories go back to the defaults as well.
resetGameToDefaults(gs) ==
    initialGameState

resetGame(gs) ==
    [initialGameState EXCEPT !.player1Category = gs.player1Category,
                             !.player2Category = gs.player2Category]

resetPlayers(gs) ==
    [id \in PlayerIds |->
        [category |-> IF id = 1 THEN gs.player1Category ELSE gs.player2Category,
         emojis |-> <<>>,
         placedEmojis |-> <<>>]]

ResetGame ==
    /\ gameState.gameStarted
    /\ gameState' = resetGame(gameState)
    /\ players' = PlayerInitEffect(gameState, gameState', resetPlayers(gameState))
    /\ owner' = NoOwner
    /\ lastCall' = "reset"
    /\ UNCHANGED <<scores, lateMoves>>

(***************************************************************************)
(* handleCategoryChange, lines 308-314, behind the category buttons of     *)
(* the setup screen, lines 425-461: player 2's button of the category      *)
(* player 1 holds is disabled; no button of player 1 is.                   *)
(***************************************************************************)
handleCategoryChange(gs, playerId, category) ==
    IF playerId = 1
    THEN [gs EXCEPT !.player1Category = category]
    ELSE [gs EXCEPT !.player2Category = category]

ButtonDisabled(gs, playerId, category) ==
    playerId = 2 /\ gs.player1Category = category

HandleCategoryChange(playerId, category) ==
    /\ ~gameState.gameStarted
    /\ ~ButtonDisabled(gameState, playerId, category)
    /\ gameState' = handleCategoryChange(gameState, playerId, category)
    /\ players' = PlayerInitEffect(gameState, gameState', players)
    /\ lastCall' = "category"
    /\ UNCHANGED <<scores, owner, lateMoves>>

(***************************************************************************)
(* The component                                                           *)
(***************************************************************************)
Init ==
    /\ gameState = initialGameState
    /\ players = initialPlayers
    /\ scores = initialScores
    /\ owner = NoOwner
    /\ lastCall = "mount"
    /\ lateMoves = 0

ClickIndices == GameCells \cup OutOfRange

\* The bound on the accepted moves that follow the first win.
Followed(index) ==
    \/ ClickRejected(gameState, index)
    \/ scores = initialScores
    \/ lateMoves < MaxLateMoves

Next ==
    \/ \E index \in ClickIndices : Followed(index) /\ HandleCellClick(index)
    \/ StartGame
    \/ Rematch
    \/ ResetGame
    \/ \E playerId \in PlayerIds, category \in Categories : HandleCategoryChange(playerId, category)

Spec == Init /\ [][Next]_vars

(***************************************************************************)
(* One game on the whole board, with the default categories.               *)
(***************************************************************************)
NextFull ==
    \/ \E index \in Cells : HandleCellClick(index)
    \/ StartGame

SpecFull == Init /\ [][NextFull]_vars

(***************************************************************************)
(* Games and their rematches, with the default categories: a rematch may   *)
(* be followed by MaxAgainMoves accepted moves.                            *)
(***************************************************************************)
FollowedAgain(index) ==
    \/ ClickRejected(gameState, index)
    \/ scores = initialScores
    \/ lateMoves < MaxAgainMoves

NextAgain ==
    \/ \E index \in ClickIndices : FollowedAgain(index) /\ HandleCellClick(index)
    \/ StartGame
    \/ Rematch

SpecAgain == Init /\ [][NextAgain]_vars

(***************************************************************************)
(* checkWinner as a function of the board and the two categories: every    *)
(* board of at most MaxMarks emojis of the two players' categories.        *)
(***************************************************************************)
Marks(board) == {c \in Cells : board[c] # Null}

InputBoards(category1, category2) ==
    LET symbols == {e \in BoardEmojis : \/ Includes(emojiCategories[category1], e)
                                        \/ Includes(emojiCategories[category2], e)}
    IN  {b \in [Cells -> symbols \cup {Null}] : Cardinality(Marks(b)) <= MaxMarks}

InitCW ==
    /\ \E category1 \in Categories, category2 \in Categories :
         \E b \in InputBoards(category1, category2) :
            gameState = [initialGameState EXCEPT !.board = b,
                                                 !.gameStarted = TRUE,
                                                 !.player1Category = category1,
                                                 !.player2Category = category2]
    /\ players = initialPlayers
    /\ scores = initialScores
    /\ owner = NoOwner
    /\ lastCall = "board"
    /\ lateMoves = 0

CheckWinnerCall ==
    /\ lastCall = "board"
    /\ LET winResult == checkWinner(gameState.board, gameState)
       IN  gameState' = [gameState EXCEPT !.winner = winResult.winner,
                                          !.winningLine = winResult.winningLine]
    /\ lastCall' = "checkWinner"
    /\ UNCHANGED <<players, scores, owner, lateMoves>>

NextCW == CheckWinnerCall

SpecCW == InitCW /\ [][NextCW]_vars

(***************************************************************************)
(* Properties                                                              *)
(***************************************************************************)
\* The vocabulary of the properties, stated on the state alone.
MarksOf(p) == {c \in Cells : owner[c] = p}
Opponent(p) == 3 - p
CategoryOf(gs, p) == IF p = 1 THEN gs.player1Category ELSE gs.player2Category
CategoryEmojis(category) == {emojiCategories[category][k] : k \in 1 .. Len(emojiCategories[category])}

\* The preconditions of a move: started, no winner, index on the board, cell empty.
Legal(index) ==
    /\ gameState.gameStarted
    /\ gameState.winner = NoWinner
    /\ index \in 0 .. 8
    /\ gameState.board[index] = Null

\* The three rows, the three columns and the two diagonals, in that order.
Triples ==
    [k \in 1 .. 8 |->
        IF k <= 3 THEN <<3 * (k - 1), 3 * (k - 1) + 1, 3 * (k - 1) + 2>>
        ELSE IF k <= 6 THEN <<k - 4, k - 1, k + 2>>
        ELSE IF k = 7 THEN <<0, 4, 8>> ELSE <<2, 4, 6>>]

\* All three cells of triple t hold emojis of the category bound to player p.
Matches(board, t, gs, p) ==
    \A i \in 1 .. 3 : board[t[i]] \in CategoryEmojis(CategoryOf(gs, p))

\* C1: in every reachable state each player has at most 3 marks of their own
\* on the board.
C1_AtMostThreeMarks == \A p \in PlayerIds : Cardinality(MarksOf(p)) <= 3

C1_Witness ==
    /\ lastCall = "vanish"
    /\ \E p \in PlayerIds : Cardinality(MarksOf(p)) = 3 /\ gameState.currentPlayer = Opponent(p)

\* C2: an accepted move by a player who has 3 placements empties the cell of
\* the oldest placement, fills the clicked cell with a mark of the mover and
\* changes no other cell; with fewer than 3 placements only the clicked cell
\* changes.
C2_FrameOfMove ==
    [][\A index \in Cells :
        (Legal(index) /\ HandleCellClick(index)) =>
            LET p == gameState.currentPlayer
                queue == players[p].placedEmojis
                oldest == queue[1].position
            IN  /\ gameState'.board[index] # Null
                /\ owner'[index] = p
                /\ IF Len(queue) >= 3
                   THEN /\ gameState'.board[oldest] = Null
                        /\ \A c \in Cells \ {index, oldest} : gameState'.board[c] = gameState.board[c]
                   ELSE \A c \in Cells \ {index} : gameState'.board[c] = gameState.board[c]]_vars

\* C3: no draw is reachable: a full board has a winner, and a started game
\* without a winner always has an empty cell whose click is accepted.
C3_NoDraw ==
    /\ (\A c \in Cells : gameState.board[c] # Null) => gameState.winner # NoWinner
    /\ (gameState.gameStarted /\ gameState.winner = NoWinner) => \E c \in Cells : Legal(c)

C3_Witness ==
    /\ lastCall = "vanish"
    /\ gameState.winner = NoWinner
    /\ Cardinality(Marks(gameState.board)) = 6

\* C4: an accepted move that produces no winner hands the turn to the other
\* player, and a rejected move leaves currentPlayer alone: no click breaks
\* either rule.
C4_TurnsAlternate ==
    [][\A index \in ClickIndices :
        /\ ~ (/\ Legal(index)
              /\ gameState'.winner = NoWinner
              /\ gameState'.currentPlayer # Opponent(gameState.currentPlayer)
              /\ HandleCellClick(index))
        /\ ~ (/\ ~Legal(index)
              /\ gameState'.currentPlayer # gameState.currentPlayer
              /\ HandleCellClick(index))]_vars

C4_Witness ==
    /\ lastCall = "place"
    /\ gameState.winner = NoWinner
    /\ gameState.currentPlayer = 1
    /\ Len(players[2].placedEmojis) = 2

\* C5 as stated: once there is a winner, currentPlayer is the winner (the turn
\* was not advanced by the winning move).
C5_TurnFrozenOnWinner ==
    gameState.winner # NoWinner => gameState.currentPlayer = gameState.winner

\* C5 as amended: the winning move advances the turn like any other move, and
\* currentPlayer then stays put for as long as the winner stands.
C5_TurnAdvancesOnWin ==
    [][/\ \A index \in ClickIndices :
            ~ (/\ Legal(index)
               /\ gameState'.winner # NoWinner
               /\ gameState'.currentPlayer # Opponent(gameState.currentPlayer)
               /\ HandleCellClick(index))
       /\ (gameState.winner # NoWinner /\ gameState'.winner # NoWinner)
                => gameState'.currentPlayer = gameState.currentPlayer]_vars

C5_Witness ==
    /\ lastCall = "rejected"
    /\ gameState.winner = 1
    /\ gameState.currentPlayer = 2
    /\ gameState.player1Category # gameState.player2Category

\* C6: a click that violates a precondition (not started, already won, index
\* off the board, cell occupied) changes nothing of the state: a step that
\* changes the state is no such click.
C6_IllegalClickIsNoOp ==
    [][<<gameState, players, scores>>' # <<gameState, players, scores>> =>
        \A index \in ClickIndices : ~ (~Legal(index) /\ HandleCellClick(index))]_vars

C6_Witness ==
    /\ lastCall = "rejected"
    /\ gameState.gameStarted
    /\ gameState.winner # NoWinner

\* C7: no game is ever started with both players bound to the same category.
C7_NoEqualCategoryGame ==
    ~(gameState.gameStarted /\ gameState.player1Category = gameState.player2Category)

\* C8: checkWinner reports a winner p with a line t only if t is one of the
\* eight triples and its three cells hold emojis of p's category, and it
\* reports no winner exactly when no triple is matched by either player.
C8_CheckWinnerByCategory ==
    lastCall = "checkWinner" =>
        /\ gameState.winner # NoWinner =>
              /\ \E k \in 1 .. 8 : gameState.winningLine = Triples[k]
              /\ Matches(gameState.board, gameState.winningLine, gameState, gameState.winner)
        /\ gameState.winner = NoWinner <=>
              ~ \E k \in 1 .. 8, p \in PlayerIds : Matches(gameState.board, Triples[k], gameState, p)

C8_Witness ==
    /\ lastCall = "checkWinner"
    /\ gameState.winner = 2
    /\ gameState.board[gameState.winningLine[1]] # gameState.board[gameState.winningLine[2]]

\* C9: the reported line is the first triple, in the order rows, columns,
\* diagonals, that either player matches, and the reported winner matches it.
C9_FirstTripleInOrder ==
    (lastCall = "checkWinner" /\ gameState.winner # NoWinner) =>
        \E k \in 1 .. 8 :
            /\ gameState.winningLine = Triples[k]
            /\ Matches(gameState.board, Triples[k], gameState, gameState.winner)
            /\ \A j \in 1 .. k - 1, p \in PlayerIds : ~Matches(gameState.board, Triples[j], gameState, p)

C9_Witness ==
    /\ lastCall = "checkWinner"
    /\ gameState.winningLine = <<0, 3, 6>>
    /\ gameState.winner = 1
    /\ Matches(gameState.board, <<2, 5, 8>>, gameState, 2)
    /\ gameState.player1Category # gameState.player2Category

\* C10: after an accepted move, winner = p and winningLine = t exactly when
\* the three cells of t all hold marks placed by p.
C10_WinnerOwnsLine ==
    [][\A index \in Cells :
        (Legal(index) /\ HandleCellClick(index)) =>
            \A p \in PlayerIds, k \in 1 .. 8 :
                (gameState'.winner = p /\ gameState'.winningLine = Triples[k])
                    <=> (\A i \in 1 .. 3 : owner'[Triples[k][i]] = p)]_vars

\* The positions a placement queue lists, oldest first.
Positions(queue) == [k \in 1 .. Len(queue) |-> queue[k].position]

\* C11: a rematch ("Play Again") leaves the board empty, both placement
\* queues empty, winner and winningLine none, and the categories and both
\* scores as they were.
C11_RematchClearsGame ==
    [][Rematch =>
        /\ gameState'.board = EmptyBoard
        /\ \A p \in PlayerIds : players'[p].placedEmojis = <<>>
        /\ gameState'.winner = NoWinner
        /\ gameState'.winningLine = NoLine
        /\ gameState'.player1Category = gameState.player1Category
        /\ gameState'.player2Category = gameState.player2Category
        /\ scores' = scores]_vars

\* C12: after every startGame, from the setup screen or as a rematch, the
\* board has 9 empty cells, currentPlayer is 1, winner and winningLine are
\* none and the game is started, whoever moved last or won.
C12_StartGameState ==
    [][(StartGame \/ Rematch) =>
        /\ DOMAIN gameState'.board = 0 .. 8
        /\ \A c \in 0 .. 8 : gameState'.board[c] = Null
        /\ gameState'.currentPlayer = 1
        /\ gameState'.winner = NoWinner
        /\ gameState'.winningLine = NoLine
        /\ gameState'.gameStarted]_vars

\* A rematch after a win of player 1, whose winning move left the turn with
\* player 2.
C12_Witness ==
    /\ lastCall = "rematch"
    /\ scores = [player1 |-> 1, player2 |-> 0]
    /\ gameState.currentPlayer = 1
    /\ gameState.board = EmptyBoard
    /\ gameState.player1Category # gameState.player2Category

\* C13: the move that sets winner = p raises p's score by exactly 1 and
\* leaves the other score alone; every other step (a move without a winner,
\* a rejected click, also after a win, a startGame or a rematch) changes no
\* score.
C13_ScoreOncePerWin ==
    [][/\ \A p \in PlayerIds :
            (gameState.winner = NoWinner /\ gameState'.winner = p) =>
                /\ \E index \in Cells : Legal(index) /\ HandleCellClick(index)
                /\ scores' = IF p = 1
                             THEN [scores EXCEPT !.player1 = scores.player1 + 1]
                             ELSE [scores EXCEPT !.player2 = scores.player2 + 1]
       /\ (gameState.winner # NoWinner \/ gameState'.winner = NoWinner) => scores' = scores]_vars

\* Player 2 has just won by a move that made an older mark vanish.
C13_Witness ==
    /\ lastCall = "vanish"
    /\ gameState.winner = 2
    /\ gameState.player1Category # gameState.player2Category
    /\ scores = [player1 |-> 0, player2 |-> 1]

\* What resetGame leaves of a game: the setup screen, an empty board, both
\* placement queues empty, player 1 to move, no winner and no winning line.
BackToSetup(gs, pl) ==
    /\ ~gs.gameStarted
    /\ gs.board = EmptyBoard
    /\ \A p \in PlayerIds : pl[p].placedEmojis = <<>>
    /\ gs.currentPlayer = 1
    /\ gs.winner = NoWinner
    /\ gs.winningLine = NoLine

\* C14 as stated: resetGame returns to the setup stage and puts the two
\* categories back to the defaults, tech and space, whatever was selected.
C14_ResetToDefaultCategories ==
    [][ResetGame =>
        /\ BackToSetup(gameState', players')
        /\ gameState'.player1Category = "tech"
        /\ gameState'.player2Category = "space"]_vars

\* C14 as amended: resetGame returns to the setup stage and keeps the two
\* categories as they were last selected.
C14_ResetKeepsCategories ==
    [][ResetGame =>
        /\ BackToSetup(gameState', players')
        /\ gameState'.player1Category = gameState.player1Category
        /\ gameState'.player2Category = gameState.player2Category
        /\ \A p \in PlayerIds : players'[p].category = CategoryOf(gameState, p)]_vars

\* A reset of a game played with player 1 bound to space and player 2 to tech.
C14_Witness ==
    /\ lastCall = "reset"
    /\ ~gameState.gameStarted
    /\ gameState.player1Category = "space"
    /\ gameState.player2Category = "tech"

\* C15: after resetGame both scores are 0.
C15_ResetClearsScores ==
    lastCall = "reset" => (scores.player1 = 0 /\ scores.player2 = 0)

\* Player 1's three marks lie on the cells first, second, third, placed in
\* that order, and player 2's marks lie elsewhere, next to cell fourth.
ThreePlaced(first, second, third, fourth) ==
    /\ gameState.gameStarted
    /\ Positions(players[1].placedEmojis) = <<first, second, third>>
    /\ MarksOf(1) = {first, second, third}
    /\ fourth \notin MarksOf(2)

\* The outcome of the scenario: cell 0 is empty and cells 1, 2, 3 hold marks
\* of player 1.
ZeroVanished(board, own) ==
    /\ board[0] = Null
    /\ own[0] = 0
    /\ \A c \in {1, 2, 3} : board[c] # Null /\ own[c] = 1

\* C16 as stated: player 1 has placed at 0, 1, 2 in that order, player 2
\* elsewhere; after the next placement of player 1, a click on cell 3, cell 0
\* is empty and cells 1, 2, 3 hold player 1's marks.
C16_ScenarioZeroOneTwoThree ==
    [][(ThreePlaced(0, 1, 2, 3) /\ HandleCellClick(3)) =>
            ZeroVanished(gameState'.board, owner')]_vars

\* C16 as amended: player 1 has placed at 0, 1, 3 in that order, which
\* completes no line, player 2 on three other cells without a win; after
\* player 1's 4th placement, at index 2, cell 0 is empty and cells 1, 2, 3
\* hold player 1's marks.
C16_ScenarioZeroOneThreeTwo ==
    [][(/\ ThreePlaced(0, 1, 3, 2)
        /\ Cardinality(MarksOf(2)) = 3
        /\ gameState.winner = NoWinner
        /\ gameState.currentPlayer = 1
        /\ HandleCellClick(2)) =>
            /\ ZeroVanished(gameState'.board, owner')
            /\ Positions(players'[1].placedEmojis) = <<1, 3, 2>>
            /\ gameState'.winner = NoWinner]_vars

\* Turn 7 of the amended scenario has been played in a first game, player 2
\* holding cells 4, 5, 6.
C16_Witness ==
    /\ lastCall = "vanish"
    /\ scores = initialScores
    /\ gameState.player1Category # gameState.player2Category
    /\ Positions(players[1].placedEmojis) = <<1, 3, 2>>
    /\ MarksOf(2) = {4, 5, 6}
    /\ ZeroVanished(gameState.board, owner)

\* C17: in every reachable state each player's placement queue lists, oldest
\* first and without a repeated position, exactly the cells that hold that
\* player's marks.
C17_QueueIsMarks ==
    \A p \in PlayerIds :
        LET positions == Positions(players[p].placedEmojis)
        IN  /\ \A i, j \in 1 .. Len(positions) : positions[i] = positions[j] => i = j
            /\ {positions[k] : k \in 1 .. Len(positions)} = MarksOf(p)
            /\ \A k \in 1 .. Len(positions) :
                  gameState.board[positions[k]] = players[p].placedEmojis[k].emoji

\* C18: an accepted move by player p touches nothing of the other player: no
\* cell holding a mark of the opponent is cleared or overwritten, and the
\* opponent's placement queue is unchanged; no click does otherwise, games
\* started by a rematch included.
C18_OpponentUntouched ==
    [][\A index \in Cells :
        ~ (/\ Legal(index)
           /\ LET q == Opponent(gameState.currentPlayer)
              IN  \/ players'[q] # players[q]
                  \/ \E c \in Cells :
                        /\ owner[c] = q
                        /\ (owner'[c] # q \/ gameState'.board[c] # gameState.board[c])
           /\ HandleCellClick(index))]_vars

\* C19: the winner is looked for on the board as it is after the vanishing
\* rule: when a placement evicts the mover's oldest one, the evicted cell is
\* empty on the new board and is no cell of the winning line; no click does
\* otherwise.
C19_WinOnPostVanishBoard ==
    [][\A index \in Cells :
        ~ (/\ Legal(index)
           /\ Len(players[gameState.currentPlayer].placedEmojis) >= 3
           /\ LET oldest == players[gameState.currentPlayer].placedEmojis[1].position
                  line == gameState'.winningLine
              IN  \/ gameState'.board[oldest] # Null
                  \/ \E i \in 1 .. Len(line) : line[i] = oldest
           /\ HandleCellClick(index))]_vars

\* The example of the claim: player 1 held 0, 1, 5 in that order and has
\* placed on cell 2; the mark of cell 0 vanished and nobody has won.
C19_Witness ==
    /\ lastCall = "vanish"
    /\ scores = initialScores
    /\ gameState.player1Category # gameState.player2Category
    /\ Positions(players[1].placedEmojis) = <<1, 5, 2>>
    /\ MarksOf(1) = {1, 2, 5}
    /\ MarksOf(2) = {3, 4, 6}
    /\ gameState.board[0] = Null
    /\ gameState.winner = NoWinner

\* C20: in every reachable state of the setup stage the two players'
\* categories are distinct.
C20_SetupCategoriesDistinct ==
    ~gameState.gameStarted => gameState.player1Category # gameState.player2Category

\* C21: the winner declared by an accepted move is the player who made that
\* move: no click of player p sets winner to the other player.
C21_WinnerIsMover ==
    [][\A index \in Cells :
        ~ (/\ Legal(index)
           /\ gameState'.winner # NoWinner
           /\ gameState'.winner # gameState.currentPlayer
           /\ HandleCellClick(index))]_vars

\* C22: in every reachable state winner is none exactly when winningLine is
\* none, and whenever winner = p the winningLine is one of the 8 triples, its
\* three cells hold marks placed by p, and they are all the marks p has on
\* the board.
C22_WinnerAndLine ==
    /\ gameState.winner = NoWinner <=> gameState.winningLine = NoLine
    /\ \A p \in PlayerIds :
          gameState.winner = p =>
              /\ \E k \in 1 .. 8 : gameState.winningLine = Triples[k]
              /\ \A i \in 1 .. 3 : owner[gameState.winningLine[i]] = p
              /\ MarksOf(p) = {gameState.winningLine[i] : i \in 1 .. 3}

====
